---- MODULE Spec2Model ----
(***************************************************************************)
(* Relay orchestration engine of stream-relay (src/unnamed/part_002, the   *)
(* stream manager): the worker set, the relay-wide flags, the per-platform *)
(* stats, the cached NVENC probe and the input poll, with one action per   *)
(* synchronous segment of every HTTP handler and per process event.        *)
(*                                                                         *)
(* Node runs one handler segment at a time: a handler is atomic up to its  *)
(* next await on real I/O (fetch, timer, probe promise).  An await on an   *)
(* already computed value (detectNvenc with a cached result) resumes in    *)
(* the microtask queue, before any other event, so it does not end a       *)
(* segment.                                                                *)
(***************************************************************************)
EXTENDS Integers, Sequences, FiniteSets, TLC

\* ---------------------------------------------------------------- bounds
Ids == {1, 2}        \* platform ids the dashboard may list
MaxProcs == 2        \* worker processes spawned in one behaviour
MaxProbes == 1       \* NVENC probe processes spawned in one behaviour
MaxNow == 2          \* Date.now() ranges over 1..MaxNow
MaxHist == 1         \* samples a history holds before the workers fall silent
MaxHealth == 1       \* GET /health requests in flight at a time
MaxLate == 3         \* clock values after a full hour of samples

\* ------------------------------------------------------- program constants
MAX_STATS_HISTORY == 3600

VARIABLES
    relayProcesses,   \* Map platformId -> handle (its process: index in procs)
    relayActive,      \* boolean
    streamStartTime,  \* 0 (null) or a time
    inputStartTime,   \* 0 (null) or a time
    nvencAvailable,   \* "null" | "true" | "false"
    platformStats,    \* Map platformId -> {history, current, ended, endTime}
    procs,            \* every ffmpeg worker spawned so far, by spawn order
    probes,           \* every NVENC probe process spawned so far
    reqs,             \* async handlers in flight, by slot
    io,               \* what the last step emitted: HTTP response, stderr
                      \* chunk received, input URL given to the spawned workers,
                      \* answer of the input poll, history sent by the stats
    now               \* the clock

vars == <<relayProcesses, relayActive, streamStartTime, inputStartTime,
          nvencAvailable, platformStats, procs, probes, reqs, io, now>>

relayVars == <<relayProcesses, relayActive, streamStartTime>>

\* ---------------------------------------------------------------- values
Absent == -1         \* a field the regexes did not match (undefined)

\* A stderr chunk, by the fields the five regexes of parseFFmpegOutput find.
Line(b, f, s, fr, t) ==
    [bitrate |-> b, fps |-> f, speed |-> s, frame |-> fr, time |-> t]

LineProgress == Line(2500, 60, 1, 10, 5)
LineFrameOnly == Line(Absent, Absent, Absent, 10, Absent)
LineNoise == Line(Absent, Absent, Absent, Absent, Absent)
Lines == {LineProgress, LineFrameOnly, LineNoise}

NoStats == [bitrate |-> Absent, fps |-> Absent, speed |-> Absent,
            frame |-> Absent, time |-> Absent, none |-> TRUE]

NoCurrent == [bitrate |-> Absent, fps |-> Absent, speed |-> Absent,
              frame |-> Absent, time |-> Absent, timestamp |-> 0]

Idle == [op |-> "idle", id |-> 0, pc |-> "idle", list |-> {}, via |-> "direct",
         old |-> 0]

\* A worker whose close event has been delivered: nothing refers to its
\* ChildProcess any more.
Closed == [id |-> 0, origin |-> "none", st |-> "closed", old |-> 0]

NoResp == [op |-> "none", id |-> 0, status |-> 0, success |-> FALSE]

NoData == [pid |-> 0, line |-> LineNoise]

\* { defined: false }: platform.encoding undefined
NoEncoding ==
    [defined |-> FALSE, usePassthrough |-> FALSE, bitrate |-> Absent,
     maxBitrate |-> Absent, bufsize |-> Absent, audioBitrate |-> Absent,
     preset |-> "undefined", framerate |-> Absent, cbr |-> "undefined",
     rcLookahead |-> Absent, keyframeInterval |-> Absent,
     profile |-> "undefined", resolution |-> "undefined"]

\* platform.srtSettings undefined
NoSrtSettings ==
    [defined |-> FALSE, latency |-> Absent, passphrase |-> "undefined",
     mode |-> "undefined"]

NoPlatform ==
    [rtmpUrl |-> "undefined", streamKey |-> "undefined",
     srtSettings |-> NoSrtSettings, encoding |-> NoEncoding]

NoIO == [resp |-> NoResp, data |-> NoData, input |-> "none", poll |-> "none",
         history |-> <<>>, platform |-> NoPlatform, args |-> <<>>,
         protocol |-> "none", startTime |-> 0]

\* One slot per handler that may still spawn a worker.
Slots == 1..MaxProcs

\* The slots of the GET /health handlers come after them.
AllSlots == 1..(MaxProcs + MaxHealth)

HealthSlots == AllSlots \ Slots

\* What the dashboard may answer to GET /api/vm/platforms: the fetch throws, a
\* non-2xx status, a body without "platforms", or a list of platforms.
FetchOutcomes ==
    {[kind |-> k, platforms |-> {}] : k \in {"throw", "notok", "missing"}}
    \cup {[kind |-> "list", platforms |-> S] : S \in SUBSET Ids}

\* What MediaMTX may answer to GET /v3/paths/list.
InputOutcomes == {"throw", "notok", "notready", "srtConn", "rtmpConn", "other"}

\* ------------------------------------------------------------- helpers
Pids == 1..Len(procs)

Size(m) == Cardinality(DOMAIN m)

\* Map.delete(k)
MapDelete(m, k) == [x \in DOMAIN m \ {k} |-> m[x]]

\* Map.set(k, v)
MapSet(m, k, v) == [x \in DOMAIN m \cup {k} |-> IF x = k THEN v ELSE m[x]]

EmptyMap == [x \in {} |-> 0]

\* ------------------------------------------------------------ telemetry
parseFFmpegOutput(line) ==
    IF /\ line.bitrate = Absent /\ line.fps = Absent /\ line.speed = Absent
       /\ line.frame = Absent /\ line.time = Absent
    THEN NoStats
    ELSE [bitrate |-> line.bitrate, fps |-> line.fps, speed |-> line.speed,
          frame |-> line.frame, time |-> line.time, none |-> FALSE]

\* { history: [], current: null } (ended and endTime undefined)
FreshSeries == [history |-> <<>>, current |-> NoCurrent, ended |-> FALSE,
                endTime |-> 0]

\* The trim keeping the first MAX_STATS_HISTORY samples.
TrimHistory_KeepOldest(h) ==
    IF Len(h) > MAX_STATS_HISTORY
    THEN SubSeq(h, 1, MAX_STATS_HISTORY)
    ELSE h

TrimHistory(h) ==
    IF Len(h) > MAX_STATS_HISTORY
    THEN SubSeq(h, Len(h) - MAX_STATS_HISTORY + 1, Len(h))
    ELSE h

\* updatePlatformStats appending every sample, with or without a bitrate.
updatePlatformStats_AlwaysAppend(ps, platformId, stats, t) ==
    LET base == IF platformId \in DOMAIN ps THEN ps ELSE MapSet(ps, platformId, FreshSeries)
        d == base[platformId]
        cur == [bitrate |-> stats.bitrate, fps |-> stats.fps, speed |-> stats.speed,
                frame |-> stats.frame, time |-> stats.time, timestamp |-> t]
        hist == TrimHistory(Append(d.history,
                         [timestamp |-> t, bitrate |-> stats.bitrate,
                          fps |-> stats.fps, speed |-> stats.speed]))
    IN MapSet(base, platformId, [d EXCEPT !.current = cur, !.history = hist])

\* The Map after updatePlatformStats(platformId, stats) at time t.
updatePlatformStats(ps, platformId, stats, t) ==
    LET base == IF platformId \in DOMAIN ps THEN ps ELSE MapSet(ps, platformId, FreshSeries)
        d == base[platformId]
        cur == [bitrate |-> stats.bitrate, fps |-> stats.fps, speed |-> stats.speed,
                frame |-> stats.frame, time |-> stats.time, timestamp |-> t]
        hist == IF stats.bitrate # Absent
                THEN TrimHistory(Append(d.history,
                         [timestamp |-> t, bitrate |-> stats.bitrate,
                          fps |-> stats.fps, speed |-> stats.speed]))
                ELSE d.history
    IN MapSet(base, platformId, [d EXCEPT !.current = cur, !.history = hist])

\* ------------------------------------------------------------- Init
Init ==
    /\ relayProcesses = EmptyMap
    /\ relayActive = FALSE
    /\ streamStartTime = 0
    /\ inputStartTime = 0
    /\ nvencAvailable = "null"
    /\ platformStats = EmptyMap
    /\ procs = <<>>
    /\ probes = <<>>
    /\ reqs = [r \in AllSlots |-> Idle]
    /\ io = NoIO
    /\ now = 1

\* ---------------------------------------------------------- processes
\* spawn('ffmpeg', args): a worker with the reactions `origin` registers on it.
\* A spawn that fails (ENOENT, EACCES) still returns a ChildProcess; its
\* 'error' event is emitted on a later tick.  old: the process the handler
\* stopped before (restartOne's existingProc), 0 for none.
\* st: "running"; "signalled" (running, SIGTERM delivered, .killed set);
\* "exited" (terminated, close event pending); "failed" (never started, error
\* event pending); "errored" (error event delivered); "closed".
NewProc(i, origin, ok, old) ==
    [id |-> i, origin |-> origin, st |-> IF ok THEN "running" ELSE "failed",
     old |-> old]

\* ChildProcess.kill('SIGTERM') on process p of pr.
kill(pr, p) ==
    [pr EXCEPT ![p].st = IF @ = "running" THEN "signalled" ELSE @]

\* proc.process && !proc.process.killed
NotKilled(p) == procs[p].st # "signalled"

Handle(p) == [process |-> p]

RECURSIVE SortedSeq(_)
SortedSeq(S) ==
    IF S = {} THEN <<>>
    ELSE LET m == CHOOSE x \in S : \A y \in S : x <= y
         IN <<m>> \o SortedSeq(S \ {m})

\* ------------------------------------------------------------- outputs
Respond(o, i, st) ==
    io' = [NoIO EXCEPT !.resp = [op |-> o, id |-> i, status |-> st,
                                 success |-> (st = 200)]]

RespondSpawned(o, i, url) ==
    io' = [NoIO EXCEPT !.resp = [op |-> o, id |-> i, status |-> 200,
                                 success |-> TRUE],
                       !.input = url]

Quiet == io' = NoIO

\* ------------------------------------------------------------- requests
InFlight == Cardinality({r \in Slots : reqs[r] # Idle})

\* The workers the handlers of the slots S may still spawn: one for each
\* handler in flight, and one for each platform of a fetched list.
RECURSIVE ReservedIn(_)
ReservedIn(S) ==
    IF S = {} THEN 0
    ELSE LET r == CHOOSE x \in S : TRUE
         IN (IF reqs[r] = Idle THEN 0
             ELSE IF reqs[r].op = "startAll" /\ reqs[r].pc = "input"
             THEN Cardinality(reqs[r].list)
             ELSE 1)
            + ReservedIn(S \ {r})

Reserved == ReservedIn(Slots)

\* A handler is taken up while a worker is left for it to spawn.
CanBegin(r) ==
    /\ reqs[r] = Idle
    /\ \A s \in Slots : s < r => reqs[s] # Idle
    /\ Len(procs) + Reserved < MaxProcs

Finish(r) == reqs' = [reqs EXCEPT ![r] = Idle]

RespOp(rec) == IF rec.via = "refresh" THEN "refresh" ELSE rec.op

\* The answer of POST /relay/start with status st: sent to the client, or to
\* POST /relay/refresh, which passes its body on with status 200.
RespondVia(rec, st) ==
    io' = [NoIO EXCEPT !.resp = [op |-> RespOp(rec), id |-> 0,
                                 status |-> IF rec.via = "refresh" THEN 200 ELSE st,
                                 success |-> (st = 200)]]

NewReq(o, i, v) ==
    [op |-> o, id |-> i, pc |-> "new", list |-> {}, via |-> v, old |-> 0]

\* await detectNvenc() in handler r (rec: the handler's record once it waits):
\* the cached value, or a new probe process and its promise, while fewer than
\* cap probes have been spawned.
detectNvencUpTo(r, rec, cap) ==
    IF nvencAvailable # "null"
    THEN /\ reqs' = [reqs EXCEPT ![r] = [rec EXCEPT !.pc = "fetch"]]
         /\ UNCHANGED probes
    ELSE /\ Len(probes) < cap
         /\ probes' = Append(probes, [owner |-> r, st |-> "run"])
         /\ reqs' = [reqs EXCEPT ![r] = [rec EXCEPT !.pc = "probe"]]

\* await detectNvenc() in a handler that starts workers.
detectNvenc(r, rec) == detectNvencUpTo(r, rec, MaxProbes)

\* resolve(value) of probe q's promise: the handler awaiting it goes on to
\* fetch the platforms.  A later resolve of the same promise does nothing.
resolve(q, st) ==
    /\ probes' = [probes EXCEPT ![q] = [owner |-> 0, st |-> st]]
    /\ reqs' = IF probes[q].owner # 0
               THEN [reqs EXCEPT ![probes[q].owner].pc = "fetch"]
               ELSE reqs

\* proc.on('close') of a probe; ok: exit code 0 and no failure phrase.
ProbeClose(q, ok) ==
    /\ q \in 1..Len(probes)
    /\ probes[q].st \in {"run", "overdue", "errored", "killed"}
    /\ ok => probes[q].st \in {"run", "overdue"}
    /\ nvencAvailable' = IF ok THEN "true" ELSE "false"
    /\ resolve(q, "closed")
    /\ Quiet
    /\ UNCHANGED <<relayVars, inputStartTime, platformStats, procs, now>>

\* proc.on('error') of a probe.
ProbeError(q) ==
    /\ q \in 1..Len(probes)
    /\ probes[q].st = "run"
    /\ nvencAvailable' = "false"
    /\ resolve(q, "errored")
    /\ Quiet
    /\ UNCHANGED <<relayVars, inputStartTime, platformStats, procs, now>>

\* The 10 s timer of a probe that still runs: with no determination cached
\* yet it kills the probe and resolves; otherwise it does nothing, and the
\* probe runs on with its timer spent ("overdue").
ProbeTimeout(q) ==
    /\ q \in 1..Len(probes)
    /\ probes[q].st = "run"
    /\ IF nvencAvailable = "null"
       THEN /\ nvencAvailable' = "false"
            /\ resolve(q, "killed")
       ELSE /\ probes' = [probes EXCEPT ![q].st = "overdue"]
            /\ UNCHANGED <<nvencAvailable, reqs>>
    /\ Quiet
    /\ UNCHANGED <<relayVars, inputStartTime, platformStats, procs, now>>

\* ------------------------------------------------------------ stopping
\* stopAllRelays() clearing the handles without signalling their processes.
stopAllRelays_NoSignal ==
    /\ procs' = procs
    /\ relayProcesses' = EmptyMap
    /\ relayActive' = FALSE
    /\ streamStartTime' = 0

\* stopAllRelays()
stopAllRelays ==
    /\ procs' = [p \in Pids |->
                   IF \E i \in DOMAIN relayProcesses :
                          relayProcesses[i].process = p /\ NotKilled(p)
                   THEN kill(procs, p)[p]
                   ELSE procs[p]]
    /\ relayProcesses' = EmptyMap
    /\ relayActive' = FALSE
    /\ streamStartTime' = 0

\* POST /relay/stop discarding the telemetry along with the handles.
StopAll_ClearsStats ==
    /\ stopAllRelays
    /\ platformStats' = EmptyMap
    /\ Respond("stopAll", 0, 200)
    /\ UNCHANGED <<inputStartTime, nvencAvailable, probes, reqs, now>>

\* POST /relay/stop
StopAll ==
    /\ stopAllRelays
    /\ Respond("stopAll", 0, 200)
    /\ UNCHANGED <<inputStartTime, nvencAvailable, platformStats, probes, reqs, now>>

\* POST /relay/stop/:platformId with the relay status updated before the
\* handle is looked up.
StopOne_StatusFirst(i) ==
    /\ IF i \notin DOMAIN relayProcesses
       THEN /\ Respond("stopOne", i, 404)
            /\ relayActive' = FALSE
            /\ streamStartTime' = 0
            /\ UNCHANGED <<relayProcesses, procs>>
       ELSE /\ procs' = IF NotKilled(relayProcesses[i].process)
                        THEN kill(procs, relayProcesses[i].process)
                        ELSE procs
            /\ relayProcesses' = MapDelete(relayProcesses, i)
            /\ IF Size(relayProcesses') = 0
               THEN relayActive' = FALSE /\ streamStartTime' = 0
               ELSE UNCHANGED <<relayActive, streamStartTime>>
            /\ Respond("stopOne", i, 200)
    /\ UNCHANGED <<inputStartTime, nvencAvailable, platformStats, probes, reqs, now>>

\* POST /relay/stop/:platformId
StopOne(i) ==
    /\ IF i \notin DOMAIN relayProcesses
       THEN /\ Respond("stopOne", i, 404)
            /\ UNCHANGED <<relayVars, procs>>
       ELSE /\ procs' = IF NotKilled(relayProcesses[i].process)
                        THEN kill(procs, relayProcesses[i].process)
                        ELSE procs
            /\ relayProcesses' = MapDelete(relayProcesses, i)
            /\ IF Size(relayProcesses') = 0
               THEN relayActive' = FALSE /\ streamStartTime' = 0
               ELSE UNCHANGED <<relayActive, streamStartTime>>
            /\ Respond("stopOne", i, 200)
    /\ UNCHANGED <<inputStartTime, nvencAvailable, platformStats, probes, reqs, now>>

\* POST /relay/stats/clear
ClearStats ==
    /\ platformStats' = EmptyMap
    /\ Respond("clear", 0, 200)
    /\ UNCHANGED <<relayVars, inputStartTime, nvencAvailable, procs, probes, reqs, now>>

\* The orchestrator has left: process.exit(0) was the last thing it did.
Exited == io.resp.op = "exit"

\* process.on('SIGTERM') and process.on('SIGINT'): the requests in flight go
\* with the process.
Shutdown ==
    /\ ~Exited
    /\ stopAllRelays
    /\ reqs' = [r \in AllSlots |-> Idle]
    /\ io' = [NoIO EXCEPT !.resp = [op |-> "exit", id |-> 0, status |-> 0,
                                    success |-> TRUE]]
    /\ UNCHANGED <<inputStartTime, nvencAvailable, platformStats, probes, now>>

\* -------------------------------------------------------- worker events
\* The close reaction with every handle dropped, whatever its platform.
closeReaction_ClearAll(p) ==
    LET i == procs[p].id
    IN /\ relayProcesses' = EmptyMap
       /\ platformStats' =
              IF procs[p].origin = "startAll" /\ i \in DOMAIN platformStats
              THEN [platformStats EXCEPT ![i].ended = TRUE, ![i].endTime = now]
              ELSE platformStats
       /\ IF Size(relayProcesses') = 0
          THEN relayActive' = FALSE /\ streamStartTime' = 0
          ELSE UNCHANGED <<relayActive, streamStartTime>>

\* The close reaction dropping the handle and leaving the relay's status.
closeReaction_KeepsStatus(p) ==
    LET i == procs[p].id
    IN /\ relayProcesses' = MapDelete(relayProcesses, i)
       /\ platformStats' =
              IF procs[p].origin = "startAll" /\ i \in DOMAIN platformStats
              THEN [platformStats EXCEPT ![i].ended = TRUE, ![i].endTime = now]
              ELSE platformStats
       /\ UNCHANGED <<relayActive, streamStartTime>>

\* The close reaction registered by `origin` (all three delete the handle by
\* platform id; only POST /relay/start marks the stats).
closeReaction(p) ==
    LET i == procs[p].id
    IN /\ relayProcesses' = MapDelete(relayProcesses, i)
       /\ platformStats' =
              IF procs[p].origin = "startAll" /\ i \in DOMAIN platformStats
              THEN [platformStats EXCEPT ![i].ended = TRUE, ![i].endTime = now]
              ELSE platformStats
       /\ IF Size(relayProcesses') = 0
          THEN relayActive' = FALSE /\ streamStartTime' = 0
          ELSE UNCHANGED <<relayActive, streamStartTime>>

\* The worker process terminates (crash, end of input, or after a signal).
ProcExit(p) ==
    /\ p \in Pids
    /\ procs[p].st \in {"running", "signalled"}
    /\ procs' = [procs EXCEPT ![p].st = "exited"]
    /\ Quiet
    /\ UNCHANGED <<relayVars, inputStartTime, nvencAvailable, platformStats,
                   probes, reqs, now>>

\* proc.on('error'): the spawn failed; every origin only logs it.
ProcError(p) ==
    /\ p \in Pids
    /\ procs[p].st = "failed"
    /\ procs' = [procs EXCEPT ![p].st = "errored"]
    /\ Quiet
    /\ UNCHANGED <<relayVars, inputStartTime, nvencAvailable, platformStats,
                   probes, reqs, now>>

\* proc.on('close'): after the exit, or after the error of a failed spawn.
ProcClose(p) ==
    /\ p \in Pids
    /\ procs[p].st \in {"exited", "errored"}
    /\ procs' = [procs EXCEPT ![p] = Closed]
    /\ closeReaction(p)
    /\ Quiet
    /\ UNCHANGED <<inputStartTime, nvencAvailable, probes, reqs, now>>

\* The stderr reaction registered by `origin` on a chunk.
stderrReaction(p, line) ==
    LET stats == parseFFmpegOutput(line)
    IN platformStats' =
           IF procs[p].origin = "startAll" /\ ~stats.none
           THEN updatePlatformStats(platformStats, procs[p].id, stats, now)
           ELSE platformStats

\* proc.stderr.on('data') (the workers fall silent once a history holds
\* MaxHist samples)
ProcData(p, line) ==
    /\ p \in Pids
    /\ procs[p].st \in {"running", "signalled", "exited"}
    /\ \A i \in DOMAIN platformStats : Len(platformStats[i].history) < MaxHist
    /\ io' = [NoIO EXCEPT !.data = [pid |-> p, line |-> line]]
    /\ stderrReaction(p, line)
    /\ UNCHANGED <<relayVars, inputStartTime, nvencAvailable, procs, probes,
                   reqs, now>>

\* ----------------------------------------------------------- the plan
\* One argument of the ffmpeg command line, the string pre + num + sep +
\* post + query: num a number in decimal (Absent: none), query the
\* URLSearchParams of an SRT target.
Tok(pre, num, sep, post, query) ==
    [pre |-> pre, num |-> num, sep |-> sep, post |-> post, query |-> query]

\* a string literal or a string taken from the configuration
Lit(str) == Tok(str, Absent, "", "", <<>>)

\* String(n)
String(n) == Tok("", n, "", "", <<>>)

\* n + 'k'
Kilo(n) == Tok("", n, "", "k", <<>>)

\* One entry of URLSearchParams: name=text or name=num.
Param(name, text, num) == [name |-> name, text |-> text, num |-> num]

\* v || d on a number (undefined and 0 are falsy)
OrNum(v, d) == IF v = Absent \/ v = 0 THEN d ELSE v

\* v || d on a string (undefined and '' are falsy)
OrStr(v, d) == IF v = "undefined" \/ v = "" THEN d ELSE v

\* Math.min
Min(a, b) == IF a <= b THEN a ELSE b

RtmpUrl == "rtmp://live.example/app"

SrtUrl == "srt://ingest.example:9000"

\* platform.rtmpUrl.startsWith('srt://'), over the endpoints above
startsWithSrt(url) == url = SrtUrl

\* const nvencPresetMap
nvencPresetMap ==
    [ultrafast |-> "p1", superfast |-> "p2", veryfast |-> "p3",
     faster |-> "p4", fast |-> "p5", medium |-> "p5", slow |-> "p6",
     slower |-> "p7"]

\* nvencPresetMap[cpuPreset] || 'p4' reading the table one entry too low.
nvencPreset_OffByOne(cpuPreset) ==
    IF cpuPreset = "fast" THEN "p4"
    ELSE IF cpuPreset \in DOMAIN nvencPresetMap
    THEN nvencPresetMap[cpuPreset]
    ELSE "p4"

\* nvencPresetMap[cpuPreset] || 'p4'
nvencPreset(cpuPreset) ==
    IF cpuPreset \in DOMAIN nvencPresetMap
    THEN nvencPresetMap[cpuPreset]
    ELSE "p4"

\* srtParams of buildFFmpegArgs, in the order the entries are set
srtParams(platform) ==
    LET srt == platform.srtSettings
        streamid == IF OrStr(platform.streamKey, "") # ""
                    THEN <<Param("streamid", platform.streamKey, Absent)>>
                    ELSE <<>>
        latency == IF OrNum(srt.latency, 0) # 0
                   THEN <<Param("latency", "", srt.latency * 1000)>>
                   ELSE <<>>
        passphrase == IF OrStr(srt.passphrase, "") # ""
                      THEN <<Param("passphrase", srt.passphrase, Absent)>>
                      ELSE <<>>
        mode == IF OrStr(srt.mode, "") # ""
                THEN <<Param("mode", srt.mode, Absent)>>
                ELSE <<>>
    IN IF srt.defined
       THEN streamid \o latency \o passphrase \o mode
       ELSE streamid \o <<Param("latency", "", 200000),
                          Param("mode", "caller", Absent)>>

\* outputUrl (SRT) and fullRtmpUrl (RTMP) of buildFFmpegArgs
outputUrl(platform) ==
    IF startsWithSrt(platform.rtmpUrl)
    THEN Tok(platform.rtmpUrl, Absent, "?", "", srtParams(platform))
    ELSE Tok(platform.rtmpUrl, Absent, "/", platform.streamKey, <<>>)

\* The arguments pushed for a platform with custom encoding settings.
encodeArgs(enc, useNvenc) ==
    LET bitrate == OrNum(enc.bitrate, 4500)
        maxBitrate == OrNum(enc.maxBitrate, bitrate)
        bufsize == OrNum(enc.bufsize, bitrate)
        audioBitrate == OrNum(enc.audioBitrate, 160)
        cpuPreset == OrStr(enc.preset, "veryfast")
        framerate == OrNum(enc.framerate, 60)
        useCbr == enc.cbr # "false"
        rcLookahead == OrNum(enc.rcLookahead, framerate)
        keyframeIntervalSec == OrNum(enc.keyframeInterval, 2)
        gopSize == keyframeIntervalSec * framerate
        profile == OrStr(enc.profile, "high")
        audio == <<Lit("-c:a"), Lit("aac"), Lit("-b:a"), Kilo(audioBitrate),
                   Lit("-ar"), Lit("48000")>>
        rates == <<Lit("-b:v"), Kilo(bitrate), Lit("-maxrate"), Kilo(maxBitrate),
                   Lit("-bufsize"), Kilo(bufsize),
                   Lit("-g"), String(gopSize),
                   Lit("-keyint_min"), String(gopSize),
                   Lit("-profile:v"), Lit(profile)>>
    IN IF useNvenc
       THEN <<Lit("-c:v"), Lit("h264_nvenc"),
              Lit("-preset"), Lit(nvencPreset(cpuPreset)),
              Lit("-tune"), Lit("ll"), Lit("-rc"), Lit("cbr")>>
            \o rates
            \o <<Lit("-rc-lookahead"), String(Min(rcLookahead, 32))>>
            \o audio
            \o (IF OrStr(enc.resolution, "") # ""
                THEN <<Lit("-vf"), Tok("scale_cuda=", Absent, "", enc.resolution, <<>>)>>
                ELSE <<>>)
       ELSE <<Lit("-c:v"), Lit("libx264"), Lit("-preset"), Lit(cpuPreset)>>
            \o rates
            \o <<Lit("-bf"), Lit("2")>>
            \o (IF useCbr
                THEN <<Lit("-x264-params"),
                       Tok("nal-hrd=cbr:force-cfr=1:rc-lookahead=",
                           Min(rcLookahead, 60), "", "", <<>>)>>
                ELSE IF rcLookahead > 0
                THEN <<Lit("-x264-params"),
                       Tok("rc-lookahead=", Min(rcLookahead, 60), "", "", <<>>)>>
                ELSE <<>>)
            \o audio
            \o (IF OrStr(enc.resolution, "") # ""
                THEN <<Lit("-vf"), Tok("scale=", Absent, "", enc.resolution, <<>>)>>
                ELSE <<>>)

\* buildFFmpegArgs(platform, inputUrl, useNvenc)
buildFFmpegArgs(platform, inputUrl, useNvenc) ==
    <<Lit("-hide_banner"), Lit("-loglevel"), Lit("info"), Lit("-stats")>>
    \o (IF useNvenc
        THEN <<Lit("-hwaccel"), Lit("cuda"),
               Lit("-hwaccel_output_format"), Lit("cuda")>>
        ELSE <<>>)
    \o <<Lit("-i"), Lit(inputUrl)>>
    \o (IF platform.encoding.defined /\ ~platform.encoding.usePassthrough
        THEN encodeArgs(platform.encoding, useNvenc)
        ELSE <<Lit("-c"), Lit("copy")>>)
    \o (IF startsWithSrt(platform.rtmpUrl)
        THEN <<Lit("-f"), Lit("mpegts"), outputUrl(platform)>>
        ELSE <<Lit("-f"), Lit("flv"), outputUrl(platform)>>)

\* The configurations the dashboard may hold for a destination.
Presets == DOMAIN nvencPresetMap \cup {"placebo", "undefined"}

Framerates == {Absent, 0, 30}

Lookaheads == {Absent, 0, 20, 40, 70}

KeyframeIntervals == {Absent, 0, 4}

Encodings ==
    {NoEncoding}
    \cup {[NoEncoding EXCEPT !.defined = TRUE, !.usePassthrough = TRUE,
                             !.preset = pr, !.bitrate = 6000] :
             pr \in {"undefined", "fast"}}
    \cup {[NoEncoding EXCEPT !.defined = TRUE, !.preset = pr, !.framerate = fr,
                             !.rcLookahead = la, !.keyframeInterval = ki,
                             !.cbr = cr[1], !.resolution = cr[2]] :
             pr \in Presets, fr \in Framerates, la \in Lookaheads,
             ki \in KeyframeIntervals,
             cr \in {<<"undefined", "undefined">>, <<"false", "1280:720">>,
                     <<"true", "undefined">>}}

SrtSettings ==
    {NoSrtSettings,
     [NoSrtSettings EXCEPT !.defined = TRUE],
     [NoSrtSettings EXCEPT !.defined = TRUE, !.latency = 120],
     [NoSrtSettings EXCEPT !.defined = TRUE, !.passphrase = "secret"],
     [NoSrtSettings EXCEPT !.defined = TRUE, !.latency = 120,
                           !.passphrase = "secret", !.mode = "listener"]}

Destinations ==
    {[rtmpUrl |-> RtmpUrl, streamKey |-> "live_key", srtSettings |-> NoSrtSettings]}
    \cup {[rtmpUrl |-> SrtUrl, streamKey |-> "live_key", srtSettings |-> st] :
             st \in SrtSettings}
    \cup {[rtmpUrl |-> SrtUrl, streamKey |-> "undefined", srtSettings |-> st] :
             st \in {NoSrtSettings, [NoSrtSettings EXCEPT !.defined = TRUE,
                                                          !.latency = 120]}}

Platforms ==
    {[rtmpUrl |-> d.rtmpUrl, streamKey |-> d.streamKey,
      srtSettings |-> d.srtSettings, encoding |-> e] :
         d \in Destinations, e \in Encodings}

\* A handler about to spawn the worker of one fetched platform: the probe
\* has answered and the input URL is chosen.
InitPlan ==
    /\ relayProcesses = EmptyMap
    /\ relayActive = FALSE
    /\ streamStartTime = 0
    /\ inputStartTime = 0
    /\ nvencAvailable \in {"true", "false"}
    /\ platformStats = EmptyMap
    /\ procs = <<>>
    /\ probes = <<>>
    /\ reqs = [r \in AllSlots |-> Idle]
    /\ \E pl \in Platforms, url \in {"rtmp", "srt"} :
          io = [NoIO EXCEPT !.platform = pl, !.input = url]
    /\ now = 1

\* const ffmpegArgs = buildFFmpegArgs(platform, inputUrl, useNvenc)
BuildPlan ==
    /\ io.platform # NoPlatform
    /\ io.args = <<>>
    /\ io' = [io EXCEPT !.args = buildFFmpegArgs(io.platform, io.input,
                                                  nvencAvailable = "true")]
    /\ UNCHANGED <<relayVars, inputStartTime, nvencAvailable, platformStats,
                   procs, probes, reqs, now>>

\* ------------------------------------------------------------ handlers
\* POST /relay/start, up to the fetch of the platforms.
StartAllBegin ==
    /\ \E r \in Slots : CanBegin(r) /\ detectNvenc(r, NewReq("startAll", 0, "direct"))
    /\ Quiet
    /\ UNCHANGED <<relayVars, inputStartTime, nvencAvailable, platformStats,
                   procs, now>>

\* POST /relay/start/:platformId, up to the fetch of the platforms.
StartOneBegin(i) ==
    /\ IF i \in DOMAIN relayProcesses
       THEN /\ Respond("startOne", i, 400)
            /\ UNCHANGED <<reqs, probes>>
       ELSE /\ \E r \in Slots :
                 CanBegin(r) /\ detectNvenc(r, NewReq("startOne", i, "direct"))
            /\ Quiet
    /\ UNCHANGED <<relayVars, inputStartTime, nvencAvailable, platformStats,
                   procs, now>>

\* POST /relay/restart/:platformId signalling the worker and keeping its
\* handle until the new worker is registered.
RestartOneBegin_KeepsHandle(i) ==
    /\ \E r \in Slots :
         /\ CanBegin(r)
         /\ IF i \in DOMAIN relayProcesses /\ NotKilled(relayProcesses[i].process)
            THEN /\ procs' = kill(procs, relayProcesses[i].process)
                 /\ reqs' = [reqs EXCEPT ![r] =
                               [NewReq("restartOne", i, "direct") EXCEPT
                                   !.pc = "delay", !.old = relayProcesses[i].process]]
                 /\ UNCHANGED <<probes, relayProcesses>>
            ELSE /\ detectNvenc(r, NewReq("restartOne", i, "direct"))
                 /\ UNCHANGED <<relayProcesses, procs>>
    /\ Quiet
    /\ UNCHANGED <<relayActive, streamStartTime, inputStartTime, nvencAvailable,
                   platformStats, now>>

\* POST /relay/restart/:platformId, up to the grace delay or, with nothing to
\* stop, up to the fetch of the platforms.
RestartOneBegin(i) ==
    /\ \E r \in Slots :
         /\ CanBegin(r)
         /\ IF i \in DOMAIN relayProcesses /\ NotKilled(relayProcesses[i].process)
            THEN /\ procs' = kill(procs, relayProcesses[i].process)
                 /\ relayProcesses' = MapDelete(relayProcesses, i)
                 /\ reqs' = [reqs EXCEPT ![r] =
                               [NewReq("restartOne", i, "direct") EXCEPT
                                   !.pc = "delay", !.old = relayProcesses[i].process]]
                 /\ UNCHANGED probes
            ELSE /\ detectNvenc(r, NewReq("restartOne", i, "direct"))
                 /\ UNCHANGED <<relayProcesses, procs>>
    /\ Quiet
    /\ UNCHANGED <<relayActive, streamStartTime, inputStartTime, nvencAvailable,
                   platformStats, now>>

\* POST /relay/refresh, up to the grace delay.
RefreshBegin ==
    /\ \E r \in Slots :
         /\ CanBegin(r)
         /\ reqs' = [reqs EXCEPT ![r] =
                       [NewReq("startAll", 0, "refresh") EXCEPT !.pc = "delay"]]
    /\ stopAllRelays
    /\ Quiet
    /\ UNCHANGED <<inputStartTime, nvencAvailable, platformStats, probes, now>>

\* The 500 ms timer fires: restartOne goes on to detectNvenc; refresh posts
\* /relay/start to itself, whose handler runs up to its fetch and whose
\* answer refresh passes on.
DelayDone(r) ==
    /\ reqs[r].pc = "delay"
    /\ detectNvenc(r, reqs[r])
    /\ Quiet
    /\ UNCHANGED <<relayVars, inputStartTime, nvencAvailable, platformStats,
                   procs, now>>

\* POST /relay/start with the running relays stopped before the dashboard's
\* answer is looked at.
StartAllFetched_StopFirst(r, out) ==
    IF out.kind \in {"throw", "notok"}
    THEN /\ RespondVia(reqs[r], 500)
         /\ Finish(r)
         /\ stopAllRelays
    ELSE IF out.platforms = {}
    THEN /\ RespondVia(reqs[r], 400)
         /\ Finish(r)
         /\ stopAllRelays
    ELSE /\ Len(procs) + Reserved - 1 + Cardinality(out.platforms) <= MaxProcs
         /\ stopAllRelays
         /\ reqs' = [reqs EXCEPT ![r].pc = "input", ![r].list = out.platforms]
         /\ Quiet

\* POST /relay/start once the dashboard has answered: it fails, or stops the
\* running relays and polls the input.
StartAllFetched(r, out) ==
    IF out.kind \in {"throw", "notok"}
    THEN /\ RespondVia(reqs[r], 500)
         /\ Finish(r)
         /\ UNCHANGED <<relayVars, procs>>
    ELSE IF out.platforms = {}
    THEN /\ RespondVia(reqs[r], 400)
         /\ Finish(r)
         /\ UNCHANGED <<relayVars, procs>>
    ELSE /\ Len(procs) + Reserved - 1 + Cardinality(out.platforms) <= MaxProcs
         /\ stopAllRelays
         /\ reqs' = [reqs EXCEPT ![r].pc = "input", ![r].list = out.platforms]
         /\ Quiet

\* POST /relay/start/:platformId and POST /relay/restart/:platformId once the
\* dashboard has answered: they fail, or poll the input.
StartOneFetched(r, out) ==
    /\ IF out.kind # "list"
       THEN Respond(reqs[r].op, reqs[r].id, 500) /\ Finish(r)
       ELSE IF reqs[r].id \notin out.platforms
       THEN Respond(reqs[r].op, reqs[r].id, 404) /\ Finish(r)
       ELSE reqs' = [reqs EXCEPT ![r].pc = "input"] /\ Quiet
    /\ UNCHANGED <<relayVars, procs>>

FetchDone(r, out) ==
    /\ reqs[r].pc = "fetch"
    /\ IF reqs[r].op = "startAll"
       THEN StartAllFetched(r, out)
       ELSE StartOneFetched(r, out)
    /\ UNCHANGED <<inputStartTime, nvencAvailable, platformStats, probes, now>>

\* checkInputStatus(): the continuity timestamp after the poll answered `out`.
checkInputStatus(out) ==
    IF out = "throw" THEN inputStartTime
    ELSE IF out \in {"notok", "notready"} THEN 0
    ELSE IF inputStartTime = 0 THEN now ELSE inputStartTime

\* The availability checkInputStatus() reports.
InputAvailable(out) == out \in {"srtConn", "rtmpConn", "other"}

\* The protocol with every unrecognised source type taken for RTMP.
Protocol_DefaultRtmp(out) ==
    IF out = "srtConn" THEN "srt"
    ELSE IF out \in {"rtmpConn", "other"} THEN "rtmp"
    ELSE "null"

\* The protocol checkInputStatus() reports.
Protocol(out) ==
    IF out = "srtConn" THEN "srt"
    ELSE IF out = "rtmpConn" THEN "rtmp"
    ELSE "null"

\* The input URL with SRT taken for every protocol that is not rtmp.
InputUrl_SrtUnlessRtmp(out) == IF Protocol(out) = "rtmp" THEN "rtmp" ELSE "srt"

InputUrl(out) == IF Protocol(out) = "srt" THEN "srt" ELSE "rtmp"

\* GET /input/status: the handler resumes with the result of
\* checkInputStatus() and sends it.
GetInputStatus(out) ==
    /\ inputStartTime' = checkInputStatus(out)
    /\ io' = [NoIO EXCEPT
                !.resp = [op |-> "inputStatus", id |-> 0, status |-> 200,
                          success |-> TRUE],
                !.poll = IF InputAvailable(out) THEN "available" ELSE "unavailable",
                !.protocol = IF InputAvailable(out) THEN Protocol(out) ELSE "null",
                !.startTime = IF InputAvailable(out) THEN inputStartTime' ELSE 0]
    /\ UNCHANGED <<relayVars, nvencAvailable, platformStats, procs, probes,
                   reqs, now>>

\* The spawn loop of POST /relay/start over the platforms `order`, those in
\* `fails` failing to spawn.
RECURSIVE SpawnAll(_, _, _)
SpawnAll(st, order, fails) ==
    IF order = <<>> THEN st
    ELSE LET i == Head(order)
             pr == Append(st.procs, NewProc(i, "startAll", i \notin fails, 0))
         IN SpawnAll([procs |-> pr,
                      stats |-> MapSet(st.stats, i, FreshSeries),
                      map |-> MapSet(st.map, i, Handle(Len(pr)))],
                     Tail(order), fails)

\* The input poll's answer arrives: POST /relay/start spawns, registers and
\* replies.
StartAllSpawn(r, out, fails) ==
    /\ fails \subseteq reqs[r].list
    /\ LET st == SpawnAll([procs |-> procs, stats |-> platformStats,
                           map |-> relayProcesses],
                          SortedSeq(reqs[r].list), fails)
       IN /\ procs' = st.procs
          /\ platformStats' = st.stats
          /\ relayProcesses' = st.map
    /\ relayActive' = TRUE
    /\ streamStartTime' = now
    /\ RespondSpawned(RespOp(reqs[r]), 0, InputUrl(out))

\* The single-platform spawn taking the present time as the relay's start
\* whether or not one is set.
StartOneSpawn_ResetsStart(r, out, fails) ==
    /\ fails \subseteq {reqs[r].id}
    /\ procs' = Append(procs, NewProc(reqs[r].id, reqs[r].op, fails = {}, reqs[r].old))
    /\ relayProcesses' = MapSet(relayProcesses, reqs[r].id, Handle(Len(procs')))
    /\ relayActive' = TRUE
    /\ streamStartTime' = now
    /\ RespondSpawned(reqs[r].op, reqs[r].id, InputUrl(out))
    /\ UNCHANGED platformStats

\* The same for POST /relay/start/:platformId and /relay/restart/:platformId.
StartOneSpawn(r, out, fails) ==
    /\ fails \subseteq {reqs[r].id}
    /\ procs' = Append(procs, NewProc(reqs[r].id, reqs[r].op, fails = {}, reqs[r].old))
    /\ relayProcesses' = MapSet(relayProcesses, reqs[r].id, Handle(Len(procs')))
    /\ relayActive' = TRUE
    /\ streamStartTime' = IF streamStartTime = 0 THEN now ELSE streamStartTime
    /\ RespondSpawned(reqs[r].op, reqs[r].id, InputUrl(out))
    /\ UNCHANGED platformStats

InputDone(r, out, fails) ==
    /\ reqs[r].pc = "input"
    /\ inputStartTime' = checkInputStatus(out)
    /\ IF reqs[r].op = "startAll"
       THEN StartAllSpawn(r, out, fails)
       ELSE StartOneSpawn(r, out, fails)
    /\ Finish(r)
    /\ UNCHANGED <<nvencAvailable, probes, now>>

\* ---------------------------------------------------------------- stats
\* Array.prototype.slice(start)
slice(h, start) ==
    LET from == IF start < 0
                THEN (IF Len(h) + start < 0 THEN 0 ELSE Len(h) + start)
                ELSE (IF start > Len(h) THEN Len(h) ELSE start)
    IN SubSeq(h, from + 1, Len(h))

\* The history GET /relay/stats/:platformId sends for the query (since,
\* limit), 0 for no since and Absent for no limit.
HistoryView(h, since, limit) ==
    LET sinceTime == since
        maxPoints == IF limit = Absent THEN 300 ELSE limit
        Newer(x) == x.timestamp > sinceTime
        filtered == IF sinceTime > 0 THEN SelectSeq(h, Newer) ELSE h
    IN IF Len(filtered) > maxPoints THEN slice(filtered, 0 - maxPoints) ELSE filtered

\* What a client may ask for.
Sinces == {0, MAX_STATS_HISTORY - 1, MAX_STATS_HISTORY + 1}

Limits == {Absent, 0, 2}

\* GET /relay/stats/:platformId
GetStatsOne(i, since, limit) ==
    /\ IF i \notin DOMAIN platformStats
       THEN Respond("stats", i, 404)
       ELSE io' = [NoIO EXCEPT
                     !.resp = [op |-> "stats", id |-> i, status |-> 200,
                               success |-> TRUE],
                     !.history = HistoryView(platformStats[i].history, since, limit)]
    /\ UNCHANGED <<relayVars, inputStartTime, nvencAvailable, platformStats,
                   procs, probes, reqs, now>>

\* The history after the last n seconds of progress lines, one a second.
LongHistory(n) ==
    [k \in 1..n |-> [timestamp |-> MAX_STATS_HISTORY - n + k,
                     bitrate |-> LineProgress.bitrate, fps |-> LineProgress.fps,
                     speed |-> LineProgress.speed]]

\* An hour after POST /relay/start has started the worker of platform 1,
\* which has written a progress line in each of the last n seconds.
InitSeries ==
    /\ relayProcesses = MapSet(EmptyMap, 1, Handle(1))
    /\ relayActive = TRUE
    /\ streamStartTime = 1
    /\ inputStartTime = 1
    /\ nvencAvailable = "false"
    /\ \E n \in {1, MAX_STATS_HISTORY - 1, MAX_STATS_HISTORY} :
          platformStats = MapSet(EmptyMap, 1,
              [FreshSeries EXCEPT
                  !.history = LongHistory(n),
                  !.current = [bitrate |-> LineProgress.bitrate,
                               fps |-> LineProgress.fps,
                               speed |-> LineProgress.speed,
                               frame |-> LineProgress.frame,
                               time |-> LineProgress.time,
                               timestamp |-> MAX_STATS_HISTORY]])
    /\ procs = <<NewProc(1, "startAll", TRUE, 0)>>
    /\ probes = <<[owner |-> 0, st |-> "closed"]>>
    /\ reqs = [r \in AllSlots |-> Idle]
    /\ io = NoIO
    /\ now = MAX_STATS_HISTORY + 1

\* proc.stderr.on('data'), the workers writing one chunk per clock value.
ProcDataTimed(p, line) ==
    /\ p \in Pids
    /\ procs[p].st \in {"running", "signalled", "exited"}
    /\ procs[p].id \in DOMAIN platformStats
       => platformStats[procs[p].id].current.timestamp # now
    /\ io' = [NoIO EXCEPT !.data = [pid |-> p, line |-> line]]
    /\ stderrReaction(p, line)
    /\ UNCHANGED <<relayVars, inputStartTime, nvencAvailable, procs, probes,
                   reqs, now>>

\* The clock after the hour.
TickLate ==
    /\ now < MAX_STATS_HISTORY + MaxLate
    /\ now' = now + 1
    /\ Quiet
    /\ UNCHANGED <<relayVars, inputStartTime, nvencAvailable, platformStats,
                   procs, probes, reqs>>

\* --------------------------------------------------------------- health
\* GET /health, up to the poll of the input.
HealthBegin ==
    /\ \E r \in HealthSlots :
         /\ reqs[r] = Idle
         /\ reqs' = [reqs EXCEPT ![r] = [NewReq("health", 0, "direct") EXCEPT
                                           !.pc = "input"]]
    /\ Quiet
    /\ UNCHANGED <<relayVars, inputStartTime, nvencAvailable, platformStats,
                   procs, probes, now>>

\* GET /health once the input poll has answered (io.poll: what
\* checkInputStatus() returned): it goes on to detectNvenc() and, with a
\* cached value, replies.
HealthInput(r, out) ==
    /\ r \in HealthSlots
    /\ reqs[r].pc = "input"
    /\ inputStartTime' = checkInputStatus(out)
    /\ LET polled == [NoIO EXCEPT !.poll = IF InputAvailable(out)
                                           THEN "available" ELSE "unavailable"]
       IN IF nvencAvailable # "null"
          THEN /\ io' = [polled EXCEPT !.resp = [op |-> "health", id |-> 0,
                                                 status |-> 200, success |-> TRUE]]
               /\ Finish(r)
               /\ UNCHANGED probes
          ELSE /\ detectNvencUpTo(r, reqs[r], MaxProbes + MaxHealth)
               /\ io' = polled
    /\ UNCHANGED <<relayVars, nvencAvailable, platformStats, procs, now>>

\* GET /health once the probe's promise has resolved: it replies.
HealthDone(r) ==
    /\ r \in HealthSlots
    /\ reqs[r].pc = "fetch"
    /\ Respond("health", 0, 200)
    /\ Finish(r)
    /\ UNCHANGED <<relayVars, inputStartTime, nvencAvailable, platformStats,
                   procs, probes, now>>

\* ---------------------------------------------------------------- clock
\* Timestamps are only compared, so the clock need only move on once its
\* present value has been stored.
Stored(t) ==
    \/ streamStartTime = t
    \/ inputStartTime = t
    \/ \E i \in DOMAIN platformStats :
          \/ platformStats[i].endTime = t
          \/ platformStats[i].current.timestamp = t

Tick ==
    /\ now < MaxNow
    /\ Stored(now)
    /\ now' = now + 1
    /\ Quiet
    /\ UNCHANGED <<relayVars, inputStartTime, nvencAvailable, platformStats,
                   procs, probes, reqs>>

\* The relay's life cycle: every handler and every process event, with silent
\* workers and a clock that stands still.
Next ==
    \/ StopAll
    \/ \E i \in Ids : StopOne(i)
    \/ \E q \in 1..MaxProbes, ok \in BOOLEAN : ProbeClose(q, ok)
    \/ \E q \in 1..MaxProbes : ProbeError(q)
    \/ \E q \in 1..MaxProbes : ProbeTimeout(q)
    \/ \E p \in 1..MaxProcs : ProcExit(p)
    \/ \E p \in 1..MaxProcs : ProcError(p)
    \/ \E p \in 1..MaxProcs : ProcClose(p)
    \/ StartAllBegin
    \/ \E i \in Ids : StartOneBegin(i)
    \/ \E i \in Ids : RestartOneBegin(i)
    \/ RefreshBegin
    \/ \E r \in Slots : DelayDone(r)
    \/ \E r \in Slots, out \in FetchOutcomes : FetchDone(r, out)
    \/ \E r \in Slots, out \in InputOutcomes, fails \in SUBSET Ids : InputDone(r, out, fails)

Spec == Init /\ [][Next]_vars

\* The telemetry: the workers write to stderr, the clock runs and the stats
\* may be cleared, while the requests arrive one at a time.
NextStats ==
    \/ Tick
    \/ ClearStats
    \/ \E p \in 1..MaxProcs, line \in Lines : ProcData(p, line)
    \/ StopAll
    \/ \E i \in Ids : StopOne(i)
    \/ \E q \in 1..MaxProbes, ok \in BOOLEAN : ProbeClose(q, ok)
    \/ \E q \in 1..MaxProbes : ProbeError(q)
    \/ \E q \in 1..MaxProbes : ProbeTimeout(q)
    \/ \E p \in 1..MaxProcs : ProcExit(p)
    \/ \E p \in 1..MaxProcs : ProcError(p)
    \/ \E p \in 1..MaxProcs : ProcClose(p)
    \/ InFlight = 0 /\ StartAllBegin
    \/ \E i \in Ids : InFlight = 0 /\ StartOneBegin(i)
    \/ \E i \in Ids : InFlight = 0 /\ RestartOneBegin(i)
    \/ InFlight = 0 /\ RefreshBegin
    \/ \E r \in Slots : DelayDone(r)
    \/ \E r \in Slots, out \in FetchOutcomes : FetchDone(r, out)
    \/ \E r \in Slots, out \in InputOutcomes, fails \in SUBSET Ids : InputDone(r, out, fails)

SpecStats == Init /\ [][NextStats]_vars
\* The health checks beside POST /relay/start: the probe and the input poll
\* under concurrent callers, with the clock running.
NextHealth ==
    \/ Tick
    \/ HealthBegin
    \/ \E r \in HealthSlots, out \in InputOutcomes : HealthInput(r, out)
    \/ \E r \in HealthSlots : HealthDone(r)
    \/ \E q \in 1..(MaxProbes + MaxHealth), ok \in BOOLEAN : ProbeClose(q, ok)
    \/ \E q \in 1..(MaxProbes + MaxHealth) : ProbeError(q)
    \/ \E q \in 1..(MaxProbes + MaxHealth) : ProbeTimeout(q)
    \/ StartAllBegin
    \/ \E r \in Slots, out \in FetchOutcomes : FetchDone(r, out)
    \/ \E r \in Slots, out \in InputOutcomes, fails \in SUBSET Ids : InputDone(r, out, fails)

SpecHealth == Init /\ [][NextHealth]_vars

\* The stats of a worker that has been running for an hour.
NextSeries ==
    \/ TickLate
    \/ \E p \in 1..MaxProcs, line \in Lines : ProcDataTimed(p, line)
    \/ \E i \in Ids, since \in Sinces, limit \in Limits : GetStatsOne(i, since, limit)

SpecSeries == InitSeries /\ [][NextSeries]_vars

\* POST /relay/refresh requests one after the other, and the process events.
NextRefresh ==
    \/ InFlight = 0 /\ RefreshBegin
    \/ \E r \in Slots : DelayDone(r)
    \/ \E q \in 1..MaxProbes, ok \in BOOLEAN : ProbeClose(q, ok)
    \/ \E q \in 1..MaxProbes : ProbeError(q)
    \/ \E q \in 1..MaxProbes : ProbeTimeout(q)
    \/ \E r \in Slots, out \in FetchOutcomes : FetchDone(r, out)
    \/ \E r \in Slots, out \in InputOutcomes, fails \in SUBSET Ids : InputDone(r, out, fails)
    \/ \E p \in 1..MaxProcs : ProcExit(p)
    \/ \E p \in 1..MaxProcs : ProcError(p)
    \/ \E p \in 1..MaxProcs : ProcClose(p)

SpecRefresh == Init /\ [][NextRefresh]_vars

\* The orchestrator from its start to its exit on SIGTERM or SIGINT, under
\* per-platform starts and stops.
NextShutdown ==
    \/ Shutdown
    \/ \E i \in Ids : ~Exited /\ StopOne(i)
    \/ \E i \in Ids : ~Exited /\ StartOneBegin(i)
    \/ \E q \in 1..MaxProbes, ok \in BOOLEAN : ~Exited /\ ProbeClose(q, ok)
    \/ \E q \in 1..MaxProbes : ~Exited /\ ProbeError(q)
    \/ \E q \in 1..MaxProbes : ~Exited /\ ProbeTimeout(q)
    \/ \E r \in Slots, out \in FetchOutcomes : ~Exited /\ FetchDone(r, out)
    \/ \E r \in Slots, out \in InputOutcomes, fails \in SUBSET Ids :
          ~Exited /\ InputDone(r, out, fails)
    \/ \E p \in 1..MaxProcs : ~Exited /\ ProcExit(p)
    \/ \E p \in 1..MaxProcs : ~Exited /\ ProcError(p)
    \/ \E p \in 1..MaxProcs : ~Exited /\ ProcClose(p)

SpecShutdown == Init /\ [][NextShutdown]_vars

\* The input detector polled by GET /input/status and GET /health, with the
\* clock running.
NextInput ==
    \/ Tick
    \/ \E out \in InputOutcomes : GetInputStatus(out)
    \/ HealthBegin
    \/ \E r \in HealthSlots, out \in InputOutcomes : HealthInput(r, out)
    \/ \E r \in HealthSlots : HealthDone(r)
    \/ \E q \in 1..(MaxProbes + MaxHealth), ok \in BOOLEAN : ProbeClose(q, ok)
    \/ \E q \in 1..(MaxProbes + MaxHealth) : ProbeError(q)
    \/ \E q \in 1..(MaxProbes + MaxHealth) : ProbeTimeout(q)

SpecInput == Init /\ [][NextInput]_vars

\* The life cycle with the event loop delivering every pending error and
\* close event of a worker.
SpecFair ==
    /\ Init
    /\ [][Next]_vars
    /\ \A p \in 1..MaxProcs : WF_vars(ProcError(p)) /\ WF_vars(ProcClose(p))

\* The plans: every configuration, both encoder paths.
NextPlan == BuildPlan

SpecPlan == InitPlan /\ [][NextPlan]_vars

\* =========================================================== properties
\* C1: in every reachable state, the states between the steps of an awaiting
\* operation included, the relay-wide active flag is true if and only if the
\* worker set is non-empty.
C1_ActiveIffWorkers == relayActive <=> (DOMAIN relayProcesses # {})

\* C2: for every destination id, never two worker processes that run without
\* having been sent a termination signal, and every such process is the one
\* the handle stored for its id refers to (no worker runs without a handle).
C2_OneWorkerPerId ==
    /\ \A p \in Pids, q \in Pids :
          /\ procs[p].st = "running"
          /\ procs[q].st = "running"
          /\ procs[p].id = procs[q].id
          => p = q
    /\ \A p \in Pids :
          procs[p].st = "running"
          => /\ procs[p].id \in DOMAIN relayProcesses
             /\ relayProcesses[procs[p].id].process = p

\* C3: a destination that has a handle loses it only through the exit of the
\* process the handle refers to or through an explicit stop of it: in no step
\* does a handle go away while its process keeps running unsignalled (as it
\* would when the close event of an earlier worker of the same id removed it).
C3_AbsentOnlyByExitOrStop ==
    [][\A i \in DOMAIN relayProcesses :
          i \notin DOMAIN relayProcesses'
          => procs'[relayProcesses[i].process].st # "running"]_vars

\* C4: once restartOne(id) of a running destination has completed with
\* success, and for as long as the worker it spawned runs unsignalled, id has
\* a handle and that handle refers to a process other than the pre-restart
\* one, whenever the old process's close event is delivered.
C4_RestartLeavesNewHandle ==
    \A p \in Pids :
        /\ procs[p].origin = "restartOne"
        /\ procs[p].old # 0
        /\ procs[p].st = "running"
        => /\ procs[p].id \in DOMAIN relayProcesses
           /\ relayProcesses[procs[p].id].process # procs[p].old

\* C5: when the dashboard answers POST /relay/start with a non-success
\* response or with an empty or missing platform list, the handler reports a
\* failure (500 or 400) and the worker set, the active flag, the relay start
\* time, every stats series and every worker process are what they were
\* before the call.
C5_StartAllFailsUntouched ==
    [][/\ StartAllBegin => UNCHANGED <<relayVars, platformStats, procs>>
       /\ \A r \in Slots, out \in FetchOutcomes :
            /\ reqs[r].op = "startAll"
            /\ out.kind # "list" \/ out.platforms = {}
            /\ FetchDone(r, out)
            => /\ io'.resp.op = RespOp(reqs[r])
               /\ reqs[r].via = "direct"
                  => io'.resp.status = IF out.kind \in {"throw", "notok"} THEN 500 ELSE 400
               /\ ~io'.resp.success
               /\ reqs'[r] = Idle
               /\ UNCHANGED <<relayVars, platformStats, procs>>]_vars

\* POST /relay/start has just reported "no enabled platforms" while workers
\* are registered and running.
C5_Witness ==
    /\ io.resp.op = "startAll"
    /\ io.resp.status = 400
    /\ relayActive
    /\ \E i \in DOMAIN relayProcesses : procs[relayProcesses[i].process].st = "running"

\* C6: POST /relay/start/:platformId answers "already running" (400) whenever
\* a handle for the id exists when its worker would be registered, and "not
\* found" (404) when the id is not in the fetched list; either way no process
\* is spawned and the worker set, active flag and start time stay as they are.
C6_StartOneRefuses ==
    [][\A r \in Slots :
          reqs[r].op = "startOne"
          => /\ \A out \in InputOutcomes, fails \in SUBSET Ids :
                   /\ reqs[r].id \in DOMAIN relayProcesses
                   /\ InputDone(r, out, fails)
                   => /\ io'.resp.status = 400
                      /\ UNCHANGED <<relayVars, procs>>
             /\ \A out \in FetchOutcomes :
                   /\ out.kind = "list"
                   /\ reqs[r].id \notin out.platforms
                   /\ FetchDone(r, out)
                   => /\ io'.resp.status = 404
                      /\ UNCHANGED <<relayVars, procs>>]_vars

\* C7: POST /relay/stop/:platformId on an id without a handle answers "not
\* found" (404) and leaves the worker set, the active flag, the start time,
\* the stats and the processes alone; after a successful one the id has no
\* handle, so that a second one right after it answers "not found".
C7_StopOneNotFound ==
    [][\A i \in Ids :
          StopOne(i)
          => IF i \in DOMAIN relayProcesses
             THEN /\ io'.resp = [op |-> "stopOne", id |-> i, status |-> 200,
                                 success |-> TRUE]
                  /\ i \notin DOMAIN relayProcesses'
             ELSE /\ io'.resp = [op |-> "stopOne", id |-> i, status |-> 404,
                                 success |-> FALSE]
                  /\ UNCHANGED <<relayVars, platformStats, procs>>]_vars

\* POST /relay/stop/:platformId has just answered "not found" for an id whose
\* worker was stopped before, while another destination has a handle.
C7_Witness ==
    /\ io.resp.op = "stopOne"
    /\ io.resp.status = 404
    /\ relayActive
    /\ DOMAIN relayProcesses # {}
    /\ \E p \in Pids : procs[p].id = io.resp.id /\ procs[p].st = "signalled"

\* C8: the close event of a worker that still has its handle and was not
\* told to stop, whichever operation spawned it, removes the handle, marks
\* the stats series of its id as ended with an end time and, if it was the
\* last worker, clears the active flag and the start time.
C8_ExitMarksEnded ==
    [][\A p \in Pids :
          /\ procs[p].st = "exited"
          /\ procs[p].id \in DOMAIN relayProcesses
          /\ relayProcesses[procs[p].id].process = p
          /\ ProcClose(p)
          => LET i == procs[p].id
             IN /\ i \notin DOMAIN relayProcesses'
                /\ i \in DOMAIN platformStats
                   => /\ platformStats'[i].ended
                      /\ platformStats'[i].endTime = now
                /\ DOMAIN relayProcesses = {i}
                   => ~relayActive' /\ streamStartTime' = 0]_vars

\* C9: a stderr chunk with a bitrate, from a worker of any origin, reaches
\* the stats: afterwards the series of the worker's id has that bitrate as
\* its current sample and one more point in its history, with that bitrate.
C9_StderrReachesStats ==
    [][\A p \in Pids, line \in Lines :
          /\ line.bitrate # Absent
          /\ ProcData(p, line)
          => LET i == procs[p].id
                 before == IF i \in DOMAIN platformStats
                           THEN Len(platformStats[i].history) ELSE 0
             IN /\ i \in DOMAIN platformStats'
                /\ platformStats'[i].current.bitrate = line.bitrate
                /\ Len(platformStats'[i].history) = before + 1
                /\ platformStats'[i].history[before + 1].bitrate = line.bitrate]_vars

\* C10: a worker whose spawn failed (its error event has fired) has no handle
\* in the worker set.
C10_SpawnFailureLeavesAbsent ==
    \A p \in Pids :
        procs[p].st = "errored"
        => ~ /\ procs[p].id \in DOMAIN relayProcesses
             /\ relayProcesses[procs[p].id].process = p

\* C11: the close event of a worker of destination X leaves the handle and
\* the stats series of every other destination as they are and leaves X
\* without a handle; no process event spawns a worker, and a destination
\* gets a handle only in the spawning step of a start, restart or refresh
\* request.
C11_ExitLeavesOthersAlone ==
    [][/\ \A p \in Pids :
            ProcClose(p)
            => /\ procs[p].id \notin DOMAIN relayProcesses'
               /\ \A y \in Ids \ {procs[p].id} :
                     /\ y \in DOMAIN relayProcesses <=> y \in DOMAIN relayProcesses'
                     /\ y \in DOMAIN relayProcesses
                        => relayProcesses'[y] = relayProcesses[y]
                     /\ y \in DOMAIN platformStats <=> y \in DOMAIN platformStats'
                     /\ y \in DOMAIN platformStats
                        => platformStats'[y] = platformStats[y]
       /\ \A p \in Pids :
            ProcExit(p) \/ ProcError(p) \/ ProcClose(p) => Len(procs') = Len(procs)
       /\ \A i \in Ids :
            i \notin DOMAIN relayProcesses /\ i \in DOMAIN relayProcesses'
            => \E r \in Slots : reqs[r].pc = "input" /\ reqs'[r] = Idle]_vars

\* One worker has closed and its series is marked ended, while another
\* destination keeps its handle, its running worker and its open series.
C11_Witness ==
    /\ \E p \in Pids : procs[p] = Closed
    /\ \E x \in DOMAIN platformStats :
          x \notin DOMAIN relayProcesses /\ platformStats[x].ended
    /\ \E y \in DOMAIN relayProcesses :
          /\ procs[relayProcesses[y].process].st = "running"
          /\ y \in DOMAIN platformStats
          /\ ~platformStats[y].ended

\* C15: the continuity timestamp follows the availability runs: a poll that
\* reports the input available sets it to the present time when it was none
\* and leaves it alone otherwise, and after any poll that reports the input
\* unavailable it is none.
C15_ContinuityFollowsRuns ==
    [][\A r \in HealthSlots, out \in InputOutcomes :
          HealthInput(r, out)
          => /\ io'.poll = "available"
                => inputStartTime' = IF inputStartTime = 0 THEN now ELSE inputStartTime
             /\ io'.poll = "unavailable" => inputStartTime' = 0]_vars

\* C16: a poll that fails, by a fetch that throws or by a non-success
\* response, reports the input unavailable and clears the stored continuity
\* timestamp.
C16_FailedPollClears ==
    [][\A r \in HealthSlots, out \in {"throw", "notok"} :
          HealthInput(r, out)
          => /\ io'.poll = "unavailable"
             /\ inputStartTime' = 0]_vars

\* C17: a probe process is spawned only while no determination is cached and
\* no other probe is in flight.
C17_ProbeOnce ==
    [][Len(probes') > Len(probes)
       => /\ nvencAvailable = "null"
          /\ \A q \in 1..Len(probes) : probes[q].owner = 0]_vars

\* C18: once the timer of a probe has fired, the probe process has been
\* killed, a determination is cached and the probe's caller has been resumed.
C18_TimeoutResumesCaller ==
    \A q \in 1..Len(probes) :
        probes[q].st \in {"overdue", "killed"}
        => /\ probes[q].st = "killed"
           /\ probes[q].owner = 0
           /\ nvencAvailable # "null"

\* C12: no history ever holds more than MAX_STATS_HISTORY samples, and a
\* sample with a bitrate goes to the end of the history, pushing out the
\* oldest sample, and no other, when the history is full.
C12_HistoryBounded ==
    [][/\ \A i \in DOMAIN platformStats' :
            Len(platformStats'[i].history) <= MAX_STATS_HISTORY
       /\ \A p \in Pids, line \in Lines :
            /\ line.bitrate # Absent
            /\ procs[p].id \in DOMAIN platformStats
            /\ ProcDataTimed(p, line)
            => LET h == platformStats[procs[p].id].history
                   sample == [timestamp |-> now, bitrate |-> line.bitrate,
                              fps |-> line.fps, speed |-> line.speed]
               IN platformStats'[procs[p].id].history =
                      IF Len(h) < MAX_STATS_HISTORY
                      THEN Append(h, sample)
                      ELSE Append(Tail(h), sample)]_vars

\* A full history whose oldest sample of the first hour is gone and whose
\* newest sample was taken after the hour.
C12_Witness ==
    \E i \in DOMAIN platformStats :
        LET h == platformStats[i].history
        IN /\ Len(h) = MAX_STATS_HISTORY
           /\ h[1].timestamp > 1
           /\ h[MAX_STATS_HISTORY].timestamp > MAX_STATS_HISTORY

\* C13: a chunk in which a field is found replaces the current sample of
\* its destination; the history grows, by that sample, exactly when the chunk
\* has a bitrate; a chunk without any field changes nothing in the stats.
C13_CurrentAlwaysHistoryOnBitrate ==
    [][\A p \in Pids, line \in Lines :
          /\ procs[p].id \in DOMAIN platformStats
          /\ ProcDataTimed(p, line)
          => LET d == platformStats[procs[p].id]
                 e == platformStats'[procs[p].id]
             IN IF line = LineNoise
                THEN platformStats' = platformStats
                ELSE /\ e.current = [bitrate |-> line.bitrate, fps |-> line.fps,
                                     speed |-> line.speed, frame |-> line.frame,
                                     time |-> line.time, timestamp |-> now]
                     /\ line.bitrate = Absent => e.history = d.history
                     /\ line.bitrate # Absent
                        => /\ e.history # d.history
                           /\ e.history[Len(e.history)] =
                                  [timestamp |-> now, bitrate |-> line.bitrate,
                                   fps |-> line.fps, speed |-> line.speed]]_vars

\* A chunk with a frame count only has replaced the current sample and left
\* the history, whose last sample is older, as it was.
C13_Witness ==
    \E i \in DOMAIN platformStats :
        LET d == platformStats[i]
        IN /\ d.current.bitrate = Absent
           /\ d.current.frame # Absent
           /\ Len(d.history) > 0
           /\ d.history[Len(d.history)].timestamp < d.current.timestamp

\* C14: the history sent for a query is made of the samples with a timestamp
\* strictly greater than since, the most recent maxPoints of them in time
\* order, maxPoints being the limit supplied (0 included) or 300.
C14_HistoryViewCapped ==
    [][\A i \in DOMAIN platformStats, since \in Sinces, limit \in Limits :
          GetStatsOne(i, since, limit)
          => LET Newer(x) == x.timestamp > since
                 newer == SelectSeq(platformStats[i].history, Newer)
                 cap == IF limit = Absent THEN 300 ELSE limit
             IN /\ Len(io'.history) <= cap
                /\ io'.history = IF Len(newer) <= cap
                                 THEN newer
                                 ELSE SubSeq(newer, Len(newer) - cap + 1, Len(newer))]_vars

\* C19: once a refresh has completed, every worker it spawned that still
\* runs, not told to stop, is the process the handle of its id refers to,
\* also after the close events of the workers the refresh stopped.
C19_RefreshKeepsNewHandles ==
    InFlight = 0
    => \A p \in Pids :
          procs[p].st = "running"
          => /\ procs[p].id \in DOMAIN relayProcesses
             /\ relayProcesses[procs[p].id].process = p

\* C20: when the orchestrator has exited on SIGTERM or SIGINT, no worker
\* process is left running without having been sent a termination signal.
C20_ShutdownSignalsEveryWorker ==
    Exited => \A p \in Pids : procs[p].st # "running"

\* C21: a step that removes a telemetry series, shortens its history or
\* empties its current sample is the administrative clear or the spawn loop
\* of a relay-wide start (direct or through refresh); stops, single starts,
\* restarts and worker events leave every existing series readable.
C21_SeriesKeptUntilClearOrStartAll ==
    [][\A i \in DOMAIN platformStats :
          (\/ i \notin DOMAIN platformStats'
           \/ Len(platformStats'[i].history) < Len(platformStats[i].history)
           \/ /\ platformStats[i].current # NoCurrent
              /\ platformStats'[i].current = NoCurrent)
          => /\ io'.resp.op \in {"clear", "startAll", "refresh"}
             /\ io'.resp.status = 200]_vars

\* A series with a sample is still there after its worker has closed and
\* the relay was stopped.
C21_Witness ==
    \E i \in DOMAIN platformStats :
        /\ platformStats[i].history # <<>>
        /\ platformStats[i].ended
        /\ relayProcesses = EmptyMap
        /\ \E p \in Pids : procs[p] = Closed
        /\ io.resp.op \in {"stopAll", "stopOne"}

\* C22: POST /relay/stop leaves no handle, the active flag false and the
\* start time unset; every running process a handle referred to has been
\* sent SIGTERM and no other process is touched; on an empty worker set, and
\* so on a second call in a row, no process is signalled and the state of
\* the first call is kept.
C22_StopAllIdempotent ==
    [][io'.resp.op = "stopAll"
       => /\ relayProcesses' = EmptyMap
          /\ relayActive' = FALSE
          /\ streamStartTime' = 0
          /\ Len(procs') = Len(procs)
          /\ \A p \in Pids :
                IF /\ procs[p].st = "running"
                   /\ \E i \in DOMAIN relayProcesses : relayProcesses[i].process = p
                THEN procs'[p] = [procs[p] EXCEPT !.st = "signalled"]
                ELSE procs'[p] = procs[p]
          /\ relayProcesses = EmptyMap => procs' = procs
          /\ io.resp.op = "stopAll" => UNCHANGED <<relayVars, procs>>]_vars

\* POST /relay/stop has just signalled the workers of two destinations.
C22_Witness ==
    /\ io.resp.op = "stopAll"
    /\ Len(procs) = 2
    /\ procs[1].id # procs[2].id
    /\ \A p \in Pids : procs[p].st = "signalled"

\* The plan of a destination has been built.
Built == io.args # <<>>

\* The plan holds the argument str.
Has(str) == \E k \in 1..Len(io.args) : io.args[k] = Lit(str)

\* The argument that follows the option opt in the plan.
After(opt) ==
    io.args[(CHOOSE k \in 1..(Len(io.args) - 1) : io.args[k] = Lit(opt)) + 1]

ReEncoding == io.platform.encoding.defined /\ ~io.platform.encoding.usePassthrough

\* C23: the plan of a destination whose encoding configuration is absent or
\* passthrough, on either encoder path, holds the copy directive and no
\* encoder, bitrate, GOP, preset, scaling, audio or hardware-acceleration
\* directive.
C23_PassthroughIsStreamCopy ==
    Built /\ ~ReEncoding
    => /\ \E k \in 1..(Len(io.args) - 1) :
             io.args[k] = Lit("-c") /\ io.args[k + 1] = Lit("copy")
       /\ \A opt \in {"-c:v", "-b:v", "-maxrate", "-bufsize", "-g",
                      "-keyint_min", "-preset", "-tune", "-rc", "-profile:v",
                      "-rc-lookahead", "-bf", "-x264-params", "-vf", "-c:a",
                      "-b:a", "-ar", "-hwaccel", "-hwaccel_output_format"} :
             ~Has(opt)

\* C24: in the plan of a re-encoding configuration, on either encoder path,
\* -g and -keyint_min both carry the keyframe interval in seconds times the
\* frame rate, 2 seconds and 60 fps standing in for absent fields.
C24_GopIsIntervalTimesRate ==
    LET enc == io.platform.encoding
        seconds == IF enc.keyframeInterval = Absent THEN 2 ELSE enc.keyframeInterval
        rate == IF enc.framerate = Absent THEN 60 ELSE enc.framerate
    IN Built /\ ReEncoding
       => /\ After("-g") = String(seconds * rate)
          /\ After("-keyint_min") = String(seconds * rate)

\* C25: on the hardware path the preset 'fast' is emitted as p5 and a preset
\* name the table does not hold as p4; on the software path the preset the
\* configuration names is emitted as it is.
C25_PresetTranslated ==
    LET preset == io.platform.encoding.preset
    IN Built /\ ReEncoding /\ preset # "undefined"
       => IF nvencAvailable = "true"
          THEN /\ preset = "fast" => After("-preset") = Lit("p5")
               /\ preset \notin {"ultrafast", "superfast", "veryfast", "faster",
                                 "fast", "medium", "slow", "slower"}
                  => After("-preset") = Lit("p4")
          ELSE After("-preset") = Lit(preset)

\* The hardware plan of a configuration naming a preset the table lacks.
C25_Witness ==
    /\ Built /\ ReEncoding
    /\ nvencAvailable = "true"
    /\ io.platform.encoding.preset = "placebo"
    /\ After("-preset") = Lit("p4")

\* C26: the look-ahead a re-encoding plan carries is the requested look-ahead,
\* the frame rate when none is requested, capped at 32 on the hardware path
\* and at 60 on the software path.
C26_LookaheadCapped ==
    LET enc == io.platform.encoding
        rate == IF enc.framerate = Absent THEN 60 ELSE enc.framerate
        requested == IF enc.rcLookahead = Absent THEN rate ELSE enc.rcLookahead
    IN Built /\ ReEncoding
       => IF nvencAvailable = "true"
          THEN /\ After("-rc-lookahead") = String(Min(requested, 32))
               /\ After("-rc-lookahead").num <= 32
          ELSE /\ Has("-x264-params")
               /\ After("-x264-params").num = Min(requested, 60)
               /\ After("-x264-params").num <= 60

\* The query the claim C27 describes for an SRT destination.
ExpectedQuery ==
    LET pl == io.platform
        srt == pl.srtSettings
        none == /\ srt.latency = Absent
                /\ srt.passphrase = "undefined"
                /\ srt.mode = "undefined"
    IN (IF pl.streamKey # "undefined"
        THEN <<Param("streamid", pl.streamKey, Absent)>> ELSE <<>>)
       \o (IF none THEN <<Param("latency", "", 200000)>>
           ELSE IF srt.latency # Absent
           THEN <<Param("latency", "", srt.latency * 1000)>> ELSE <<>>)
       \o (IF srt.passphrase # "undefined"
           THEN <<Param("passphrase", srt.passphrase, Absent)>> ELSE <<>>)
       \o (IF none THEN <<Param("mode", "caller", Absent)>>
           ELSE IF srt.mode # "undefined"
           THEN <<Param("mode", srt.mode, Absent)>> ELSE <<>>)

\* C27: the plan ends with the format and the target: flv and endpoint/key
\* for a push endpoint, mpegts and endpoint?query for an srt:// endpoint, the
\* query carrying the stream key, the latency in microseconds, the
\* passphrase and the mode when supplied, and latency=200000 and mode=caller
\* exactly when the destination supplies none of latency, passphrase, mode.
C27_PlanEndsWithFormatAndTarget ==
    LET n == Len(io.args)
        pl == io.platform
    IN Built
       => /\ io.args[n - 2] = Lit("-f")
          /\ IF pl.rtmpUrl = SrtUrl
             THEN /\ io.args[n - 1] = Lit("mpegts")
                  /\ io.args[n] = Tok(pl.rtmpUrl, Absent, "?", "", ExpectedQuery)
             ELSE /\ io.args[n - 1] = Lit("flv")
                  /\ io.args[n] = Tok(pl.rtmpUrl, Absent, "/", pl.streamKey, <<>>)

\* C28: a poll that finds the input path present and ready reports the input
\* available, with protocol srt for source type srtConn, rtmp for rtmpConn
\* and none for any other or missing type, and keeps the continuity
\* timestamp: set to the present time if unset, left alone otherwise.
C28_ProtocolFromSourceType ==
    [][\A out \in {"srtConn", "rtmpConn", "other"} :
          GetInputStatus(out)
          => /\ io'.poll = "available"
             /\ io'.protocol = CASE out = "srtConn" -> "srt"
                                 [] out = "rtmpConn" -> "rtmp"
                                 [] OTHER -> "null"
             /\ inputStartTime' = IF inputStartTime = 0 THEN now ELSE inputStartTime
             /\ io'.startTime = inputStartTime']_vars

\* A ready input of unknown source type, polled again at a later time: no
\* protocol, available, and the timestamp of the earlier poll.
C28_Witness ==
    /\ io.resp.op = "inputStatus"
    /\ io.poll = "available"
    /\ io.protocol = "null"
    /\ io.startTime # 0
    /\ io.startTime < now

\* C29: after every step the relay start time is set exactly when the active
\* flag is true; the spawn loop of a relay-wide start sets the start time to
\* the present time; the spawn of startOne or restartOne keeps a start time
\* that is set and sets an unset one; stopAll clears it; a close event or a
\* stopOne that leaves no handle clears it.
C29_StartTimeSteps ==
    [][/\ relayActive' <=> (streamStartTime' # 0)
       /\ (io'.input # "none" /\ io'.resp.op \in {"startAll", "refresh"})
          => streamStartTime' = now
       /\ (io'.input # "none" /\ io'.resp.op \in {"startOne", "restartOne"})
          => streamStartTime' = IF streamStartTime # 0 THEN streamStartTime ELSE now
       /\ io'.resp.op = "stopAll" => streamStartTime' = 0
       /\ (/\ relayProcesses' = EmptyMap
           /\ \/ io'.resp.op = "stopOne" /\ io'.resp.status = 200
              \/ \E p \in Pids : /\ procs[p].st \in {"exited", "errored"}
                                 /\ procs'[p].st = "closed")
          => streamStartTime' = 0]_vars

\* startOne has spawned a worker at a later time than the relay's start.
C29_Witness ==
    /\ io.resp.op = "startOne"
    /\ io.input # "none"
    /\ relayActive
    /\ streamStartTime # 0
    /\ streamStartTime < now

\* C30: a step marks a telemetry series ended only when no worker that feeds
\* it is running: the close event of an earlier worker of the same id does
\* not mark the series a relay-wide start has since created afresh for a
\* worker that still runs.
C30_EndedOnlyWhenWorkerTerminated ==
    [][\A i \in DOMAIN platformStats \cap DOMAIN platformStats' :
          (~platformStats[i].ended /\ platformStats'[i].ended)
          => ~\E p \in Pids : /\ procs'[p].id = i
                              /\ procs'[p].origin = "startAll"
                              /\ procs'[p].st = "running"]_vars

\* C31: once a capability determination is cached, no step changes it: a
\* later close event of a probe process leaves the cached value as it is.
C31_CachedCapabilityStable ==
    [][nvencAvailable # "null" => nvencAvailable' = nvencAvailable]_vars

\* No handler is in flight and no worker process is alive.
AllExited ==
    /\ InFlight = 0
    /\ \A p \in Pids : procs[p].st \in {"exited", "failed", "errored", "closed"}

\* C32: with every pending worker event delivered, a worker process that
\* has exited is eventually referred to by no handle; and if from some time
\* on no handler is in flight and every worker has exited, the relay comes
\* to rest with no handle, the active flag false and no start time.
C32_ExitedWorkersForgotten ==
    /\ \A p \in 1..MaxProcs :
          (p \in Pids /\ procs[p].st = "exited")
          ~> (\A i \in DOMAIN relayProcesses : relayProcesses[i].process # p)
    /\ <>[]AllExited
       => <>[](/\ relayProcesses = EmptyMap
               /\ relayActive = FALSE
               /\ streamStartTime = 0)

\* Every worker the relay started has exited and been forgotten.
C32_Witness ==
    /\ Len(procs) = MaxProcs
    /\ \A p \in Pids : procs[p] = Closed
    /\ InFlight = 0
    /\ relayProcesses = EmptyMap
    /\ relayActive = FALSE
    /\ streamStartTime = 0

\* C33: the handler that spawns after its input poll answered `out` gives its
\* workers the SRT input URL exactly when the poll detected srt, and the RTMP
\* input URL for rtmp, for no protocol and for an unavailable input; it
\* spawns its workers in each of these cases.
C33_InputUrlFromPoll ==
    [][\A r \in Slots, out \in InputOutcomes, fails \in SUBSET Ids :
          InputDone(r, out, fails)
          => /\ io'.input = IF out = "srtConn" THEN "srt" ELSE "rtmp"
             /\ Len(procs') = Len(procs)
                               + IF reqs[r].op = "startAll"
                                 THEN Cardinality(reqs[r].list) ELSE 1]_vars

\* A relay-wide start has spawned its workers on the RTMP input URL although
\* the poll found no input.
C33_Witness ==
    /\ io.resp.op = "startAll"
    /\ io.input = "rtmp"
    /\ inputStartTime = 0
    /\ \E p \in Pids : procs[p].st = "running"

\* C34: after every step no handle refers to a process the relay has sent
\* SIGTERM, and a step that signals a process leaves no handle referring to
\* it.
C34_HandlesUnsignalled ==
    [][/\ \A i \in DOMAIN relayProcesses' :
             procs'[relayProcesses'[i].process].st # "signalled"
       /\ \A p \in Pids :
             (procs[p].st # "signalled" /\ procs'[p].st = "signalled")
             => \A i \in DOMAIN relayProcesses' : relayProcesses'[i].process # p]_vars

\* A restart has signalled the old worker and registered the new one under
\* the same id.
C34_Witness ==
    /\ io.resp.op = "restartOne"
    /\ \E p, q \in Pids :
          /\ procs[p].st = "signalled"
          /\ procs[q].st = "running"
          /\ procs[q].id = procs[p].id
          /\ procs[q].id \in DOMAIN relayProcesses
          /\ relayProcesses[procs[q].id].process = q
====
